---- MODULE Spec2Model ----
(***************************************************************************)
(* Model of the repository-discovery pipeline of core-github-api:          *)
(*   OrchestratorAgent (src/src/agents/orchestrator.ts), one Durable       *)
(*   Object instance named 'orchestrator' shared by every session;         *)
(*   GithubSearchWorkflow (src/workflows/search.ts), which enqueues one    *)
(*   message per search; and the queue handler of src/src/index.ts.        *)
(* Handlers are split at their awaits: D1, AI, workflow and RPC awaits let *)
(* other events interleave; Durable Object storage operations hold the     *)
(* object's input gate.                                                    *)
(***************************************************************************)
EXTENDS Integers, Sequences, FiniteSets, TLC

\* ---- bounds of the model ----
MaxSessions == 2
MaxSearches == 2
MaxTerms == 2
MaxSends == 2
MaxBatch == 1
NumConsumers == 2
NumRepos == 1
MaxText == 4
MaxRows == 12
MaxTop == 2
Limit == 10
BackoffMs == 1000
MaxQueries == 6
K == 5
MaxSockets == 3
MaxTicks == 2
MaxOver == 1

\* ---- program constants ----
retries == 3
MAX_MESSAGES_PER_SECOND == 10
RATE_LIMIT_WINDOW_MS == 1000

Sessions == 1..MaxSessions
SearchIds == 1..MaxSearches
Consumers == 1..NumConsumers
Repos == 1..NumRepos
NoOne == 0
Sockets == 1..MaxSockets

VARIABLES
  sessions,        \* D1 table sessions: the session ids inserted
  searches,        \* D1 table searches: row id = index (AUTOINCREMENT)
  repoAnalysis,    \* D1 table repo_analysis: row id = index
  pendingSearches, \* ctx.storage key 'pendingSearches' of the one orchestrator
  gate,            \* holder of the orchestrator's input gate, NoOne when open
  start,           \* per call of OrchestratorAgent.start: position and locals
  workflows,       \* GITHUB_SEARCH_WORKFLOW instances: created, sends made
  queue,           \* SEARCH_QUEUE: undelivered copies per message (searchId)
  cons,            \* per queue-handler invocation: position and locals
  response,        \* the answer of the last getStatus call
  exec,            \* a call of searchRepositoriesWithRetry: position, locals
  gen,             \* a call of start seen by its terms: position, locals
  room             \* the RoomDO instance: sockets, socketMeta, clock, sends

vars == <<sessions, searches, repoAnalysis, pendingSearches, gate, start,
          workflows, queue, cons, response, exec, gen, room>>

\* ---- helpers ----
Range(f) == {f[i] : i \in DOMAIN f}

Min(a, b) == IF a < b THEN a ELSE b

SeqsUpTo(S, n) == UNION {[1..k -> S] : k \in 0..n}

Count(seq, x) == Cardinality({i \in DOMAIN seq : seq[i] = x})

\* search results: items with pairwise distinct full_name
ItemSeqs == {q \in SeqsUpTo(Repos, NumRepos) :
               \A i, j \in DOMAIN q : i # j => q[i] # q[j]}

Undefined == [defined |-> FALSE, list |-> <<>>]

Stored(list) == [defined |-> TRUE, list |-> list]

\* removal by splice(indexOf(searchId), 1): an absent id removes the last entry
FilterOutSplice(list, searchId) ==
  IF \E i \in DOMAIN list : list[i] = searchId
  THEN SelectSeq(list, LAMBDA id : id # searchId)
  ELSE SubSeq(list, 1, Len(list) - 1)

\* Array.prototype.filter((id) => id !== searchId)
FilterOut(list, searchId) == SelectSeq(list, LAMBDA id : id # searchId)

\* an object whose events are delivered during another event's storage operations
InputGateAlwaysFree == TRUE

\* the orchestrator's input gate: events are delivered only while no storage
\* operation of another event is in progress
InputGateFree == gate = NoOne

\* a repo_analysis table created without the UNIQUE constraint
UniqueOkNoConstraint(rows, sessionId, repo) == TRUE

\* UNIQUE (session_id, repo_full_name) of repo_analysis
UniqueOk(rows, sessionId, repo) ==
  \A i \in DOMAIN rows :
    ~(rows[i].sessionId = sessionId /\ rows[i].repoFullName = repo)

\* an existence check that finds a record for every candidate
AlreadyAnalyzedAlways(sessionId, repo) == TRUE

\* select id from repo_analysis where session_id = ? and repo_full_name = ?
AlreadyAnalyzed(sessionId, repo) ==
  \E i \in DOMAIN repoAnalysis :
    repoAnalysis[i].sessionId = sessionId /\ repoAnalysis[i].repoFullName = repo

\* searchRepositoriesWithRetry: attempts[i+1] is the outcome of attempt i
RECURSIVE RetryFrom(_, _)
RetryFrom(attempts, i) ==
  IF i >= retries THEN "undefined"
  ELSE IF attempts[i + 1] = "ok" THEN "json"
  ELSE IF attempts[i + 1] = "throw" /\ i = retries - 1 THEN "throw"
  ELSE RetryFrom(attempts, i + 1)

searchRepositoriesWithRetry(attempts) == RetryFrom(attempts, 0)

AttemptOutcomes == [1..retries -> {"ok", "non200", "throw"}]

\* no call of searchRepositoriesWithRetry is being followed
NoExec == [attempts |-> [k \in 1..retries |-> "ok"], pc |-> "idle", i |-> 0,
           made |-> 0, slept |-> <<>>, result |-> "none"]


\* ---- generateSearchTerms ----

\* entries of the structured queries array: a non-string, '', blanks, a query
QueryItems == {"nonString", "", " ", "q"}

\* lines of the raw text: '', blanks, a query, a line that starts 'Here are'
RawLines == {"", " ", "q", "Here are"}

\* x.trim()
Trim(x) == IF x = " " THEN "" ELSE x

\* array.slice(0, n) that keeps everything
SliceAll(q, n) == q

\* array.slice(0, n)
Slice(q, n) == SubSeq(q, 1, Min(n, Len(q)))

\* .filter((q) => typeof q === 'string' && q.trim() !== '')
UsableQueries(q) ==
  SelectSeq(q, LAMBDA x : x # "nonString" /\ Trim(x) # "")

\* .filter(term => term.trim() !== '' && !term.startsWith('Here are'))
UsableLines(q) == SelectSeq(q, LAMBDA x : Trim(x) # "" /\ x # "Here are")

\* outcomes of the first call: it rejects, resolves to null, to a text (given
\* by its lines), or to an object whose response is not a string
GptOutcomes ==
  {[kind |-> k, lines |-> <<"">>] : k \in {"throw", "null", "nonString"}}
    \cup {[kind |-> "text", lines |-> q] :
            q \in SeqsUpTo(RawLines, MaxQueries) \ {<<>>}}

\* outcomes of the second call: it rejects, its response does not parse,
\* parses without a queries array, or parses with one
LlamaOutcomes ==
  {[kind |-> k, queries |-> <<>>] : k \in {"throw", "unparseable", "mismatch"}}
    \cup {[kind |-> "queries", queries |-> q] :
            q \in SeqsUpTo(QueryItems, MaxQueries)}

NoTerms == [throws |-> TRUE, terms |-> <<>>]

Terms(q) == [throws |-> FALSE, terms |-> q]

\* rawQueryText.split('\n').filter(...).slice(0, 5)
RawFallback(g) ==
  IF g.kind = "nonString" THEN NoTerms
  ELSE Terms(Slice(UsableLines(g.lines), K))

generateSearchTerms(g, l) ==
  IF g.kind \in {"throw", "null"} THEN NoTerms
  ELSE IF l.kind = "queries" THEN Terms(Slice(UsableQueries(l.queries), K))
  ELSE RawFallback(g)

\* no call of start is being followed by its terms
NoGen == [gpt |-> [kind |-> "text", lines |-> <<"">>],
          llama |-> [kind |-> "throw", queries |-> <<>>],
          pc |-> "idle", terms |-> <<>>, dispatched |-> <<>>]


\* ---- analyzeRepository ----

\* characters of the reasoning text: digits, the dot, anything else
Digits == {"0", "5"}

Chars == Digits \cup {".", "x"}

DigitVal(ch) == IF ch = "5" THEN 5 ELSE 0

Texts == SeqsUpTo(Chars, MaxText)

RECURSIVE Pow10(_)
Pow10(n) == IF n = 0 THEN 1 ELSE 10 * Pow10(n - 1)

\* scores are counted in units of 10^-FracDigits, the finest a text resolves
FracDigits == MaxText - 2

\* the number 1.0 (maximum of the schema's relevancyScore)
One == Pow10(FracDigits)

\* /(\d\.\d+)/ matches at position i
MatchAt(t, i) ==
  /\ i + 2 <= Len(t)
  /\ t[i] \in Digits
  /\ t[i + 1] = "."
  /\ t[i + 2] \in Digits

\* rawAnalysisText.match(/(\d\.\d+)/): position of the first match, 0 for null
FirstMatch(t) ==
  IF \E i \in DOMAIN t : MatchAt(t, i)
  THEN CHOOSE i \in DOMAIN t :
         MatchAt(t, i) /\ \A j \in DOMAIN t : MatchAt(t, j) => i <= j
  ELSE 0

\* \d+ is greedy: the last digit of the run that starts at j
RECURSIVE RunEnd(_, _)
RunEnd(t, j) ==
  IF j + 1 <= Len(t) /\ t[j + 1] \in Digits THEN RunEnd(t, j + 1) ELSE j

\* digits t[j..e] after the dot, the first worth 10^-k
RECURSIVE Fraction(_, _, _, _)
Fraction(t, j, e, k) ==
  IF j > e THEN 0
  ELSE DigitVal(t[j]) * Pow10(FracDigits - k) + Fraction(t, j + 1, e, k + 1)

\* Number.parseFloat(scoreMatch[1]) for the match at position i
ParseFloatAt(t, i) ==
  DigitVal(t[i]) * One + Fraction(t, i + 2, RunEnd(t, i + 2), 1)

\* outcomes of the reasoning call: it rejects, resolves to null, to a text
\* (a string, or an object whose response is a string or missing), or to an
\* object whose response is not a string
Stage1Outcomes ==
  {[kind |-> k, text |-> <<>>] : k \in {"throw", "null", "nonString"}}
    \cup {[kind |-> "text", text |-> t] : t \in Texts}

\* outcomes of the structuring call: it rejects, its response does not parse,
\* parses without a numeric relevancyScore, or parses with one
Stage2Numbers == {0 - One, 0, One \div 2, One, One + One \div 2}

Stage2Outcomes ==
  {[kind |-> k, value |-> 0] : k \in {"throw", "unparseable", "mismatch"}}
    \cup {[kind |-> "number", value |-> v] : v \in Stage2Numbers}

Throws == [throws |-> TRUE, relevancyScore |-> 0]

Returns(score) == [throws |-> FALSE, relevancyScore |-> score]

\* a catch block that gives up on the text
RegexFallbackZero(s1) ==
  IF s1.kind = "nonString" THEN Throws ELSE Returns(0)

\* the catch block of analyzeRepository
RegexFallback(s1) ==
  IF s1.kind = "nonString" THEN Throws
  ELSE IF FirstMatch(s1.text) # 0
       THEN Returns(ParseFloatAt(s1.text, FirstMatch(s1.text)))
       ELSE Returns(0)

analyzeRepository(s1, s2) ==
  IF s1.kind \in {"throw", "null"} THEN Throws
  ELSE IF s2.kind = "number" THEN Returns(s2.value)
  ELSE IF s2.kind = "mismatch" THEN Returns(0)
  ELSE RegexFallback(s1)

\* the outcomes the pipeline specification draws from
PipelineStage1 ==
  {[kind |-> "throw", text |-> <<>>],
   [kind |-> "text", text |-> <<"0", ".", "5">>]}

PipelineStage2 == {[kind |-> "throw", value |-> 0]}

NoStage1 == [kind |-> "text", text |-> <<>>]

NoStage2 == [kind |-> "throw", value |-> 0]

\* OrchestratorAgent.getStatus: the status field of the answer
GetStatus(s) ==
  IF pendingSearches.defined /\ Len(pendingSearches.list) > 0
  THEN "pending" ELSE "completed"

Idle == [pc |-> "idle", batch |-> <<>>, items |-> <<>>,
         wcRead |-> Undefined, replay |-> FALSE,
         raw |-> NoStage1, llama |-> NoStage2, score |-> 0,
         acked |-> 0]

NotStarted == [pc |-> "new", searchIds |-> <<>>, terms |-> 0]

NoResponse == [sessionId |-> NoOne, status |-> "none", results |-> <<>>]

\* socketMeta.get(ws) === undefined
NoMeta == [id |-> NoOne]

\* no send made by the handler that ran last
NoSends == [sock \in Sockets |-> <<>>]

\* a RoomDO with no socket accepted; readyState and membership of
\* ctx.getWebSockets() per socket, the socketMeta WeakMap, Date.now(), the
\* return point of the last handler and the sends it made per socket; window
\* keeps, per socket, the start of its rate-limit window and the messages
\* processed in it, whatever the object's memory holds
NoRoom == [state |-> [sock \in Sockets |-> "absent"],
           socketMeta |-> [sock \in Sockets |-> NoMeta],
           now |-> 0,
           path |-> "none",
           out |-> NoSends,
           window |-> [sock \in Sockets |-> [start |-> 0, processed |-> 0]]]

Init ==
  /\ sessions = {}
  /\ searches = <<>>
  /\ repoAnalysis = <<>>
  /\ pendingSearches = Undefined
  /\ gate = NoOne
  /\ room = NoRoom
  /\ start = [s \in Sessions |-> NotStarted]
  /\ workflows = [id \in SearchIds |-> [created |-> FALSE, sends |-> 0]]
  /\ queue = [id \in SearchIds |-> 0]
  /\ cons = [c \in Consumers |-> Idle]
  /\ response = NoResponse
  /\ exec = NoExec
  /\ gen = NoGen

\* ---- OrchestratorAgent.start ----

\* terms that calls of start in progress still have to insert
Reserved == LET RECURSIVE Sum(_)
                Sum(S) == IF S = {} THEN 0
                          ELSE LET s == CHOOSE x \in S : TRUE
                               IN start[s].terms + Sum(S \ {s})
            IN Sum(Sessions)

\* start(prompt): sessionId = crypto.randomUUID(); INSERT INTO sessions
StartInsertSession(s) ==
  /\ start[s].pc = "new"
  /\ \A t \in Sessions : t < s => start[t].pc # "new"
  /\ sessions' = sessions \cup {s}
  /\ start' = [start EXCEPT ![s].pc = "generate"]
  /\ UNCHANGED <<searches, repoAnalysis, pendingSearches, gate, workflows,
                 queue, cons, response, exec, gen, room>>

\* searchTerms = await this.generateSearchTerms(prompt): n terms, or the
\* first AI.run rejects and start rejects with it
StartGenerateWith(s, maxTerms) ==
  /\ start[s].pc = "generate"
  /\ \/ \E n \in 0..Min(maxTerms, MaxSearches - Len(searches) - Reserved) :
          start' = [start EXCEPT ![s].terms = n,
                                 ![s].pc = IF n > 0 THEN "insert" ELSE "put"]
     \/ start' = [start EXCEPT ![s].pc = "failed"]
  /\ UNCHANGED <<sessions, searches, repoAnalysis, pendingSearches, gate,
                 workflows, queue, cons, response, exec, gen, room>>

StartGenerate(s) == StartGenerateWith(s, MaxTerms)

\* INSERT INTO searches; searchIds.push(search.meta.last_row_id)
StartInsertSearch(s) ==
  /\ start[s].pc = "insert"
  /\ searches' = Append(searches, [sessionId |-> s, status |-> "pending"])
  /\ start' = [start EXCEPT ![s].searchIds = Append(@, Len(searches) + 1),
                            ![s].pc = "create"]
  /\ UNCHANGED <<sessions, repoAnalysis, pendingSearches, gate, workflows,
                 queue, cons, response, exec, gen, room>>

\* GITHUB_SEARCH_WORKFLOW.create({ id: `search-${searchId}`, params })
StartCreateWorkflow(s) ==
  /\ start[s].pc = "create"
  /\ LET id == start[s].searchIds[Len(start[s].searchIds)]
     IN workflows' = [workflows EXCEPT ![id].created = TRUE]
  /\ start' = [start EXCEPT ![s].terms = @ - 1,
                            ![s].pc = IF start[s].terms > 1 THEN "insert"
                                      ELSE "put"]
  /\ UNCHANGED <<sessions, searches, repoAnalysis, pendingSearches, gate,
                 queue, cons, response, exec, gen, room>>

\* GITHUB_SEARCH_WORKFLOW.create rejects: start rejects after the row insert,
\* before the put
StartCreateWorkflowThrows(s) ==
  /\ start[s].pc = "create"
  /\ start' = [start EXCEPT ![s].pc = "failed"]
  /\ UNCHANGED <<sessions, searches, repoAnalysis, pendingSearches, gate,
                 workflows, queue, cons, response, exec, gen, room>>

\* this.ctx.storage.put('pendingSearches', searchIds); return { sessionId }
StartPut(s) ==
  /\ start[s].pc = "put"
  /\ InputGateFree
  /\ pendingSearches' = Stored(start[s].searchIds)
  /\ start' = [start EXCEPT ![s].pc = "done"]
  /\ UNCHANGED <<sessions, searches, repoAnalysis, gate, workflows, queue,
                 cons, response, exec, gen, room>>

\* ---- GithubSearchWorkflow.run ----

\* step.do('enqueue-search-task', ...): SEARCH_QUEUE.send; the step is
\* retryable, so the message can be sent more than once
WorkflowSend(id) ==
  /\ workflows[id].created
  /\ workflows[id].sends < MaxSends
  /\ workflows' = [workflows EXCEPT ![id].sends = @ + 1]
  /\ queue' = [queue EXCEPT ![id] = @ + 1]
  /\ UNCHANGED <<sessions, searches, repoAnalysis, pendingSearches, gate,
                 start, cons, response, exec, gen, room>>

\* ---- queue handler ----

CurrentId(c) == Head(cons[c].batch)

CurrentSession(c) == searches[CurrentId(c)].sessionId

\* batches the queue can hand to one invocation
BatchesUpTo(n) == {b \in SeqsUpTo(SearchIds, n) :
                     /\ Len(b) >= 1
                     /\ \A id \in SearchIds : Count(b, id) <= queue[id]}

Batches == BatchesUpTo(MaxBatch)

Requeued(b) == [id \in SearchIds |-> queue[id] + Count(b, id)]

\* a rejected handler whose messages are dropped
AbortDropping(c) ==
  /\ queue' = queue
  /\ cons' = [cons EXCEPT ![c] = Idle]

\* the handler throws: no further ack, every unacknowledged message of the
\* batch is delivered again
Abort(c) ==
  /\ queue' = Requeued(cons[c].batch)
  /\ cons' = [cons EXCEPT ![c] = Idle]

\* queue(batch, env, ctx) with a batch of the given set
ReceiveFrom(c, batches) ==
  /\ cons[c].pc = "idle"
  /\ \A d \in Consumers : d < c => cons[d].pc # "idle"
  /\ \E b \in batches :
       /\ queue' = [id \in SearchIds |-> queue[id] - Count(b, id)]
       /\ cons' = [cons EXCEPT ![c] =
                     [Idle EXCEPT !.pc = "search", !.batch = b,
                        !.replay = searches[Head(b)].status = "completed"]]
  /\ UNCHANGED <<sessions, searches, repoAnalysis, pendingSearches, gate,
                 start, workflows, response, exec, gen, room>>

\* a handler that marks the search running as soon as it has the message
ReceiveMarkingRunning(c) ==
  /\ cons[c].pc = "idle"
  /\ \A d \in Consumers : d < c => cons[d].pc # "idle"
  /\ \E b \in Batches :
       /\ queue' = [id \in SearchIds |-> queue[id] - Count(b, id)]
       /\ searches' = [searches EXCEPT ![Head(b)].status = "running"]
       /\ cons' = [cons EXCEPT ![c] =
                     [Idle EXCEPT !.pc = "search", !.batch = b,
                        !.replay = searches[Head(b)].status = "completed"]]
  /\ UNCHANGED <<sessions, repoAnalysis, pendingSearches, gate,
                 start, workflows, response, exec, gen, room>>

\* queue(batch, env, ctx): first message of the batch. Invocations are
\* interchangeable, so a batch goes to the lowest idle one.
Receive(c) == ReceiveFrom(c, Batches)

\* searchResults = await searchRepositoriesWithRetry(...); searchResults.items
SearchOkWith(c, results) ==
  /\ cons[c].pc = "search"
  /\ \E attempts \in AttemptOutcomes :
       searchRepositoriesWithRetry(attempts) = "json"
  /\ \E items \in results :
       cons' = [cons EXCEPT ![c].items = items,
                            ![c].pc = IF items = <<>> THEN "update"
                                      ELSE "check"]
  /\ UNCHANGED <<sessions, searches, repoAnalysis, pendingSearches, gate,
                 start, workflows, queue, response, exec, gen, room>>

SearchOk(c) == SearchOkWith(c, ItemSeqs)

\* the last attempt throws, or no attempt returned 200 and reading .items of
\* undefined throws: the handler rejects
SearchFails(c) ==
  /\ cons[c].pc = "search"
  /\ \E attempts \in AttemptOutcomes :
       searchRepositoriesWithRetry(attempts) \in {"throw", "undefined"}
  /\ Abort(c)
  /\ UNCHANGED <<sessions, searches, repoAnalysis, pendingSearches, gate,
                 start, workflows, response, exec, gen, room>>

NextRepo(c, rest) == [cons EXCEPT ![c].items = rest,
                                  ![c].raw = NoStage1,
                                  ![c].llama = NoStage2,
                                  ![c].score = 0,
                                  ![c].pc = IF rest = <<>> THEN "update"
                                            ELSE "check"]

\* 2a. existence check; results.length > 0 => continue
Check(c) ==
  /\ cons[c].pc = "check"
  /\ IF AlreadyAnalyzed(CurrentSession(c), Head(cons[c].items))
     THEN cons' = NextRepo(c, Tail(cons[c].items))
     ELSE cons' = [cons EXCEPT ![c].pc = "analyze"]
  /\ UNCHANGED <<sessions, searches, repoAnalysis, pendingSearches, gate,
                 start, workflows, queue, response, exec, gen, room>>

\* 2b. analysis = await analyzeRepository(repo, searchTerm, aiBinding)
AnalyzeWith(c, stage1, stage2) ==
  /\ cons[c].pc = "analyze"
  /\ \E s1 \in stage1, s2 \in stage2 :
       /\ ~analyzeRepository(s1, s2).throws
       /\ cons' = [cons EXCEPT
                     ![c].raw = s1, ![c].llama = s2,
                     ![c].score = analyzeRepository(s1, s2).relevancyScore,
                     ![c].pc = "insert"]
  /\ UNCHANGED <<sessions, searches, repoAnalysis, pendingSearches, gate,
                 start, workflows, queue, response, exec, gen, room>>

Analyze(c) == AnalyzeWith(c, PipelineStage1, PipelineStage2)

\* 2b. analyzeRepository rejects: the handler rejects
AnalyzeThrowsWith(c, stage1, stage2) ==
  /\ cons[c].pc = "analyze"
  /\ \E s1 \in stage1, s2 \in stage2 : analyzeRepository(s1, s2).throws
  /\ Abort(c)
  /\ UNCHANGED <<sessions, searches, repoAnalysis, pendingSearches, gate,
                 start, workflows, response, exec, gen, room>>

AnalyzeThrows(c) == AnalyzeThrowsWith(c, PipelineStage1, PipelineStage2)

\* 2c. await db.insert(schema.repoAnalysis).values({...})
Insert(c) ==
  /\ cons[c].pc = "insert"
  /\ UniqueOk(repoAnalysis, CurrentSession(c), Head(cons[c].items))
  /\ repoAnalysis' = Append(repoAnalysis,
                            [sessionId |-> CurrentSession(c),
                             searchId |-> CurrentId(c),
                             repoFullName |-> Head(cons[c].items),
                             relevancyScore |-> cons[c].score])
  /\ cons' = NextRepo(c, Tail(cons[c].items))
  /\ UNCHANGED <<sessions, searches, pendingSearches, gate, start, workflows,
                 queue, response, exec, gen, room>>

\* 2c. the insert violates the UNIQUE constraint: the handler rejects
InsertThrows(c) ==
  /\ cons[c].pc = "insert"
  /\ ~UniqueOk(repoAnalysis, CurrentSession(c), Head(cons[c].items))
  /\ Abort(c)
  /\ UNCHANGED <<sessions, searches, repoAnalysis, pendingSearches, gate,
                 start, workflows, response, exec, gen, room>>

\* 3. update searches set status = 'completed' where id = searchId
UpdateStatus(c) ==
  /\ cons[c].pc = "update"
  /\ searches' = [searches EXCEPT ![CurrentId(c)].status = "completed"]
  /\ cons' = [cons EXCEPT ![c].pc = "notify"]
  /\ UNCHANGED <<sessions, repoAnalysis, pendingSearches, gate, start,
                 workflows, queue, response, exec, gen, room>>

\* workflowComplete: pendingSearches = await this.ctx.storage.get(...)
WorkflowCompleteGet(c) ==
  /\ cons[c].pc = "notify"
  /\ InputGateFree
  /\ cons' = [cons EXCEPT ![c].wcRead = pendingSearches,
                          ![c].pc = IF pendingSearches.defined THEN "wcPut"
                                    ELSE "ack"]
  /\ gate' = IF pendingSearches.defined THEN c ELSE NoOne
  /\ UNCHANGED <<sessions, searches, repoAnalysis, pendingSearches, start,
                 workflows, queue, response, exec, gen, room>>

\* a workflowComplete that returns without its put having been made
WorkflowCompletePutUnawaited(c) ==
  /\ cons[c].pc = "wcPut"
  /\ gate' = IF gate = c THEN NoOne ELSE gate
  /\ cons' = [cons EXCEPT ![c].pc = "ack"]
  /\ UNCHANGED <<sessions, searches, repoAnalysis, pendingSearches, start,
                 workflows, queue, response, exec, gen, room>>

\* workflowComplete: filter, then this.ctx.storage.put(...)
WorkflowCompletePut(c) ==
  /\ cons[c].pc = "wcPut"
  /\ pendingSearches' = Stored(FilterOut(cons[c].wcRead.list, CurrentId(c)))
  /\ gate' = IF gate = c THEN NoOne ELSE gate
  /\ cons' = [cons EXCEPT ![c].pc = "ack"]
  /\ UNCHANGED <<sessions, searches, repoAnalysis, start, workflows, queue,
                 response, exec, gen, room>>

\* an ack of the whole batch after its first message
AckWholeBatch(c) ==
  /\ cons[c].pc = "ack"
  /\ cons' = [cons EXCEPT ![c] = Idle]
  /\ UNCHANGED <<sessions, searches, repoAnalysis, pendingSearches, gate,
                 start, workflows, queue, response, exec, gen, room>>

\* message.ack(), then the next message of the batch
Ack(c) ==
  /\ cons[c].pc = "ack"
  /\ cons' = [cons EXCEPT ![c] =
                IF Len(cons[c].batch) = 1 THEN Idle
                ELSE [Idle EXCEPT !.pc = "search",
                        !.batch = Tail(cons[c].batch),
                        !.acked = cons[c].acked + 1,
                        !.replay = searches[cons[c].batch[2]].status
                                     = "completed"]]
  /\ UNCHANGED <<sessions, searches, repoAnalysis, pendingSearches, gate,
                 start, workflows, queue, response, exec, gen, room>>

Next ==
  \/ \E s \in Sessions : StartInsertSession(s)
  \/ \E s \in Sessions : StartGenerate(s)
  \/ \E s \in Sessions : StartInsertSearch(s)
  \/ \E s \in Sessions : StartCreateWorkflow(s)
  \/ \E s \in Sessions : StartCreateWorkflowThrows(s)
  \/ \E s \in Sessions : StartPut(s)
  \/ \E id \in SearchIds : WorkflowSend(id)
  \/ \E c \in Consumers : Receive(c)
  \/ \E c \in Consumers : SearchOk(c)
  \/ \E c \in Consumers : SearchFails(c)
  \/ \E c \in Consumers : Check(c)
  \/ \E c \in Consumers : Analyze(c)
  \/ \E c \in Consumers : AnalyzeThrows(c)
  \/ \E c \in Consumers : Insert(c)
  \/ \E c \in Consumers : InsertThrows(c)
  \/ \E c \in Consumers : UpdateStatus(c)
  \/ \E c \in Consumers : WorkflowCompleteGet(c)
  \/ \E c \in Consumers : WorkflowCompletePut(c)
  \/ \E c \in Consumers : Ack(c)

Spec == Init /\ [][Next]_vars

\* ---- one session, one invocation at a time, every outcome of the AI calls ----

\* search results of up to NumRepos + 1 candidates
ScoreItemSeqs == {q \in SeqsUpTo(1..(NumRepos + 1), NumRepos + 1) :
                    \A i, j \in DOMAIN q : i # j => q[i] # q[j]}

SearchOkScore(c) == SearchOkWith(c, ScoreItemSeqs)

\* a session of at most one task
StartGenerateOne(s) == StartGenerateWith(s, Min(MaxTerms, 1))

AnalyzeAny(c) == AnalyzeWith(c, Stage1Outcomes, Stage2Outcomes)

AnalyzeAnyThrows(c) == AnalyzeThrowsWith(c, Stage1Outcomes, Stage2Outcomes)

ScoreNext ==
  \/ \E s \in {Min(MaxSessions, 1)} : StartInsertSession(s)
  \/ \E s \in {Min(MaxSessions, 1)} : StartGenerateOne(s)
  \/ \E s \in {Min(MaxSessions, 1)} : StartInsertSearch(s)
  \/ \E s \in {Min(MaxSessions, 1)} : StartCreateWorkflow(s)
  \/ \E s \in {Min(MaxSessions, 1)} : StartPut(s)
  \/ \E id \in SearchIds : WorkflowSend(id)
  \/ \E c \in {Min(NumConsumers, 1)} : Receive(c)
  \/ \E c \in {Min(NumConsumers, 1)} : SearchOkScore(c)
  \/ \E c \in {Min(NumConsumers, 1)} : SearchFails(c)
  \/ \E c \in {Min(NumConsumers, 1)} : Check(c)
  \/ \E c \in {Min(NumConsumers, 1)} : AnalyzeAny(c)
  \/ \E c \in {Min(NumConsumers, 1)} : AnalyzeAnyThrows(c)
  \/ \E c \in {Min(NumConsumers, 1)} : Insert(c)
  \/ \E c \in {Min(NumConsumers, 1)} : UpdateStatus(c)
  \/ \E c \in {Min(NumConsumers, 1)} : WorkflowCompleteGet(c)
  \/ \E c \in {Min(NumConsumers, 1)} : WorkflowCompletePut(c)
  \/ \E c \in {Min(NumConsumers, 1)} : Ack(c)

ScoreSpec == Init /\ [][ScoreNext]_vars

\* ---- one session whose tasks are handled one invocation at a time ----

\* search results of up to NumRepos + 2 candidates
SeqItemSeqs == {q \in SeqsUpTo(1..(NumRepos + 2), NumRepos + 2) :
                  \A i, j \in DOMAIN q : i # j => q[i] # q[j]}

SearchOkSeq(c) == SearchOkWith(c, SeqItemSeqs)

SeqNext ==
  \/ \E s \in {Min(MaxSessions, 1)} : StartInsertSession(s)
  \/ \E s \in {Min(MaxSessions, 1)} : StartGenerate(s)
  \/ \E s \in {Min(MaxSessions, 1)} : StartInsertSearch(s)
  \/ \E s \in {Min(MaxSessions, 1)} : StartCreateWorkflow(s)
  \/ \E s \in {Min(MaxSessions, 1)} : StartPut(s)
  \/ \E id \in SearchIds : WorkflowSend(id)
  \/ \E c \in {Min(NumConsumers, 1)} : Receive(c)
  \/ \E c \in {Min(NumConsumers, 1)} : SearchOkSeq(c)
  \/ \E c \in {Min(NumConsumers, 1)} : SearchFails(c)
  \/ \E c \in {Min(NumConsumers, 1)} : Check(c)
  \/ \E c \in {Min(NumConsumers, 1)} : Analyze(c)
  \/ \E c \in {Min(NumConsumers, 1)} : AnalyzeThrows(c)
  \/ \E c \in {Min(NumConsumers, 1)} : Insert(c)
  \/ \E c \in {Min(NumConsumers, 1)} : UpdateStatus(c)
  \/ \E c \in {Min(NumConsumers, 1)} : WorkflowCompleteGet(c)
  \/ \E c \in {Min(NumConsumers, 1)} : WorkflowCompletePut(c)
  \/ \E c \in {Min(NumConsumers, 1)} : Ack(c)

SeqSpec == Init /\ [][SeqNext]_vars

\* ---- one handler at a time, batches of more than one message ----

ReceivePair(c) == ReceiveFrom(c, BatchesUpTo(MaxBatch + 1))

BatchNext ==
  \/ \E s \in {Min(MaxSessions, 1)} : StartInsertSession(s)
  \/ \E s \in {Min(MaxSessions, 1)} : StartGenerate(s)
  \/ \E s \in {Min(MaxSessions, 1)} : StartInsertSearch(s)
  \/ \E s \in {Min(MaxSessions, 1)} : StartCreateWorkflow(s)
  \/ \E s \in {Min(MaxSessions, 1)} : StartPut(s)
  \/ \E id \in SearchIds : WorkflowSend(id)
  \/ \E c \in {Min(NumConsumers, 1)} : ReceivePair(c)
  \/ \E c \in {Min(NumConsumers, 1)} : SearchOk(c)
  \/ \E c \in {Min(NumConsumers, 1)} : SearchFails(c)
  \/ \E c \in {Min(NumConsumers, 1)} : Check(c)
  \/ \E c \in {Min(NumConsumers, 1)} : Analyze(c)
  \/ \E c \in {Min(NumConsumers, 1)} : AnalyzeThrows(c)
  \/ \E c \in {Min(NumConsumers, 1)} : Insert(c)
  \/ \E c \in {Min(NumConsumers, 1)} : UpdateStatus(c)
  \/ \E c \in {Min(NumConsumers, 1)} : WorkflowCompleteGet(c)
  \/ \E c \in {Min(NumConsumers, 1)} : WorkflowCompletePut(c)
  \/ \E c \in {Min(NumConsumers, 1)} : Ack(c)

BatchSpec == Init /\ [][BatchNext]_vars

\* ---- start, seen by the terms it derives and dispatches ----

\* the pairs of outcomes of the two calls: every text with every outcome of
\* the second call that leads to the raw text, and every queries array
TermInputs ==
  {<<g, l>> \in GptOutcomes \X LlamaOutcomes : l.kind # "queries"}
    \cup {<<g, l>> \in GptOutcomes \X LlamaOutcomes :
            l.kind = "queries" /\ g.lines = <<"q">>}

TermInit ==
  /\ sessions = {}
  /\ searches = <<>>
  /\ repoAnalysis = <<>>
  /\ pendingSearches = Undefined
  /\ gate = NoOne
  /\ room = NoRoom
  /\ start = [s \in Sessions |-> NotStarted]
  /\ workflows = [id \in SearchIds |-> [created |-> FALSE, sends |-> 0]]
  /\ queue = [id \in SearchIds |-> 0]
  /\ cons = [c \in Consumers |-> Idle]
  /\ response = NoResponse
  /\ exec = NoExec
  /\ \E in \in TermInputs :
       gen = [NoGen EXCEPT !.gpt = in[1], !.llama = in[2], !.pc = "call"]

\* searchTerms = await this.generateSearchTerms(prompt)
Derive ==
  /\ gen.pc = "call"
  /\ LET out == generateSearchTerms(gen.gpt, gen.llama)
     IN gen' = IF out.throws THEN [gen EXCEPT !.pc = "rejected"]
               ELSE [gen EXCEPT !.terms = out.terms,
                                !.pc = IF out.terms = <<>> THEN "done"
                                       ELSE "loop"]
  /\ UNCHANGED <<sessions, searches, repoAnalysis, pendingSearches, gate,
                 start, workflows, queue, cons, response, exec, room>>

\* for (const searchTerm of searchTerms): insert the row, create the workflow
Dispatch ==
  /\ gen.pc = "loop"
  /\ gen' = [gen EXCEPT !.dispatched = Append(@, Head(gen.terms)),
                        !.terms = Tail(@),
                        !.pc = IF Len(gen.terms) = 1 THEN "done" ELSE "loop"]
  /\ UNCHANGED <<sessions, searches, repoAnalysis, pendingSearches, gate,
                 start, workflows, queue, cons, response, exec, room>>

TermNext == Derive \/ Dispatch

TermSpec == TermInit /\ [][TermNext]_vars

\* ---- RoomDO: the broadcast room ----
OtherVars == <<sessions, searches, repoAnalysis, pendingSearches, gate, start,
               workflows, queue, cons, response, exec, gen>>

\* the inbound messages: JSON with a type, JSON without one; text that is not
\* JSON becomes { type: "message", ... } before validation
Raws == [typed : {TRUE},
         type : {"ping", "broadcast", "list_clients", "message", ""}]
          \cup {[typed |-> FALSE, type |-> ""]}

\* InboundMessageSchema.safeParse(rawMessage).success, type: z.string().min(1)
Valid(raw) == raw.typed /\ raw.type # ""

\* the room's own messages carry no sender
Reply(type) == [type |-> type, sender |-> NoOne]

\* enrichedMessage: { ...parsed, meta: { sender: senderMeta?.id, ... } }
Enriched(raw, meta) == [type |-> raw.type, sender |-> meta.id]

\* ws.send(message) after the sends already made
send(out, ws, message) == [out EXCEPT ![ws] = Append(@, message)]

broadcastWithSender(state, out, sender, message) ==
  [sock \in Sockets |->
     IF state[sock] # "absent" /\ state[sock] = "open"
     THEN Append(out[sock], message) ELSE out[sock]]

\* for (const sock of this.ctx.getWebSockets())
\*   if (sock !== sender && sock.readyState === 1) sock.send(messageStr)
broadcast(state, out, sender, message) ==
  [sock \in Sockets |->
     IF state[sock] # "absent" /\ sock # sender /\ state[sock] = "open"
     THEN Append(out[sock], message) ELSE out[sock]]

\* switch (parsed.type): the return point and the sends
Switch(state, ws, raw, meta) ==
  CASE raw.type = "ping" ->
         [path |-> "pong", out |-> send(NoSends, ws, Reply("pong"))]
    [] raw.type = "broadcast" ->
         [path |-> "broadcast",
          out |-> broadcast(state, NoSends, ws, Enriched(raw, meta))]
    [] raw.type = "list_clients" ->
         [path |-> "clients_list",
          out |-> send(NoSends, ws, Reply("clients_list"))]
    [] OTHER ->
         [path |-> "default",
          out |-> broadcast(state, NoSends, ws, Enriched(raw, meta))]

\* fetch(request) with Upgrade: websocket: accept, store the metadata, send
\* "connected", broadcast "client_joined"
fetch(server, meta) ==
  /\ room.state[server] = "absent"
  /\ LET state == [room.state EXCEPT ![server] = "open"]
     IN room' = [room EXCEPT
          !.state = state,
          !.socketMeta[server] = meta,
          !.path = "connected",
          !.out = broadcast(state, send(NoSends, server, Reply("connected")),
                            server, Reply("client_joined")),
          !.window[server] = [start |-> room.now, processed |-> 0]]
  /\ UNCHANGED OtherVars

Connect(server) == fetch(server, [id |-> server])

\* webSocketMessage(ws, message) of src/do/RoomDO.ts
webSocketMessage(ws, raw) ==
  /\ room.state[ws] = "open"
  /\ LET r == IF ~Valid(raw)
              THEN [path |-> "invalid",
                    out |-> send(NoSends, ws, Reply("error: Invalid message format"))]
              ELSE Switch(room.state, ws, raw, room.socketMeta[ws])
     IN room' = [room EXCEPT !.path = r.path, !.out = r.out]
  /\ UNCHANGED OtherVars

\* the peer closes: the socket is in getWebSockets() with readyState 2 until
\* webSocketClose has run
PeerCloses(ws) ==
  /\ room.state[ws] = "open"
  /\ room' = [room EXCEPT !.state[ws] = "closing"]
  /\ UNCHANGED OtherVars

\* webSocketClose(ws, code, reason, wasClean)
webSocketClose(ws) ==
  /\ room.state[ws] = "closing"
  /\ room' = [room EXCEPT
       !.out = IF room.socketMeta[ws].id # NoOne
               THEN broadcast(room.state, NoSends, ws, Reply("client_left"))
               ELSE NoSends,
       !.path = "closed",
       !.socketMeta[ws] = NoMeta,
       !.state[ws] = "absent"]
  /\ UNCHANGED OtherVars

\* the object is evicted from memory with its sockets kept (acceptWebSocket):
\* the next event constructs it again, socketMeta = new WeakMap()
Hibernate ==
  /\ \E sock \in Sockets : room.socketMeta[sock].id # NoOne
  /\ room' = [room EXCEPT !.socketMeta = [sock \in Sockets |-> NoMeta]]
  /\ UNCHANGED OtherVars

RoomNext ==
  \/ \E ws \in Sockets : Connect(ws)
  \/ \E ws \in Sockets, raw \in Raws : webSocketMessage(ws, raw)
  \/ \E ws \in Sockets : PeerCloses(ws)
  \/ \E ws \in Sockets : webSocketClose(ws)
  \/ Hibernate

RoomSpec == Init /\ [][RoomNext]_vars

\* ---- RoomDO with the size and rate limits (src/unnamed/part_000) ----
LimitSockets == 1..Min(MaxSockets, 2)

\* the clock is read in steps of half a window
TickMs == RATE_LIMIT_WINDOW_MS \div 2

LimitRaws == {raw \in Raws : raw.type \in {"ping", "broadcast"} \/ ~raw.typed}

\* InboundMessageSchema of part_000: one of the three known shapes, or an
\* object whose type is a string that is none of the known types
ValidLimited(raw) == raw.typed

\* meta of fetch: messageCount: 0, lastMessageTime: Date.now()
ConnectLimited(server) ==
  fetch(server, [id |-> server, messageCount |-> 0,
                 lastMessageTime |-> room.now])

\* the rate limiting block: the metadata after it
Counted(meta, now) ==
  IF now - meta.lastMessageTime < RATE_LIMIT_WINDOW_MS
  THEN [meta EXCEPT !.messageCount = @ + 1]
  ELSE [meta EXCEPT !.messageCount = 1, !.lastMessageTime = now]

Processed(path) == path \notin {"none", "nometa", "large", "limited"}

\* the window of a socket after a message that is not oversize
Window(w, now, path) ==
  IF now - w.start < RATE_LIMIT_WINDOW_MS
  THEN [w EXCEPT !.processed = @ + (IF Processed(path) THEN 1 ELSE 0)]
  ELSE [start |-> now, processed |-> IF Processed(path) THEN 1 ELSE 0]

\* webSocketMessage(ws, message) of part_000; large: the message is longer
\* than MAX_MESSAGE_SIZE
webSocketMessageLimited(ws, raw, large) ==
  /\ room.state[ws] = "open"
  /\ room.socketMeta[ws].id # NoOne =>
       room.socketMeta[ws].messageCount < MAX_MESSAGES_PER_SECOND + MaxOver
  /\ LET senderMeta == room.socketMeta[ws]
         meta == Counted(senderMeta, room.now)
         r == IF senderMeta.id = NoOne
              THEN [path |-> "nometa", out |-> NoSends, meta |-> NoMeta]
              ELSE IF large
              THEN [path |-> "large", meta |-> senderMeta,
                    out |-> send(NoSends, ws, Reply("error: Message too large"))]
              ELSE IF /\ room.now - senderMeta.lastMessageTime < RATE_LIMIT_WINDOW_MS
                      /\ meta.messageCount > MAX_MESSAGES_PER_SECOND
              THEN [path |-> "limited", meta |-> meta,
                    out |-> send(NoSends, ws, Reply("error: Rate limit exceeded"))]
              ELSE IF ~ValidLimited(raw)
              THEN [path |-> "invalid", meta |-> meta,
                    out |-> send(NoSends, ws, Reply("error: Invalid message format"))]
              ELSE LET sw == Switch(room.state, ws, raw, senderMeta)
                   IN [path |-> sw.path, meta |-> meta, out |-> sw.out]
     IN room' = [room EXCEPT
          !.path = r.path,
          !.out = r.out,
          !.socketMeta[ws] = r.meta,
          !.window[ws] = IF large THEN @ ELSE Window(@, room.now, r.path)]
  /\ UNCHANGED OtherVars

\* Date.now() has advanced
Tick ==
  /\ room.now + TickMs <= MaxTicks * TickMs
  /\ room' = [room EXCEPT !.now = @ + TickMs]
  /\ UNCHANGED OtherVars

LimitNext ==
  \/ \E ws \in LimitSockets : ConnectLimited(ws)
  \/ \E ws \in LimitSockets, raw \in LimitRaws, large \in BOOLEAN :
       webSocketMessageLimited(ws, raw, large)
  \/ \E ws \in LimitSockets : PeerCloses(ws)
  \/ \E ws \in LimitSockets : webSocketClose(ws)
  \/ Tick
  \/ Hibernate

LimitSpec == Init /\ [][LimitNext]_vars

\* ---- getStatus over a filled repo_analysis table ----

\* WHERE session_id = ?
RowsOfAnySession(rows, s) == DOMAIN rows

RowsOf(rows, s) == {i \in DOMAIN rows : rows[i].sessionId = s}

\* the orders in which the engine may emit rows that ORDER BY leaves tied
Plans == {"rowidAsc", "rowidDesc"}

\* row i is emitted before row j
Before(rows, plan, i, j) ==
  \/ rows[i].relevancyScore > rows[j].relevancyScore
  \/ /\ rows[i].relevancyScore = rows[j].relevancyScore
     /\ IF plan = "rowidAsc" THEN i < j ELSE i > j

\* ORDER BY relevancy_score DESC LIMIT n over the row ids in S
RECURSIVE OrderByLimit(_, _, _, _)
OrderByLimit(rows, plan, S, n) ==
  IF S = {} \/ n = 0 THEN <<>>
  ELSE LET first == CHOOSE i \in S :
                      \A j \in S \ {i} : Before(rows, plan, i, j)
       IN <<first>> \o OrderByLimit(rows, plan, S \ {first}, n - 1)

\* a getStatus that runs the query whatever the stored list holds
getStatusExposing(s, plan) ==
  [sessionId |-> s, status |-> GetStatus(s),
   results |-> OrderByLimit(repoAnalysis, plan,
                            RowsOf(repoAnalysis, s), Limit)]

\* OrchestratorAgent.getStatus(sessionId): the row ids of results
getStatus(s, plan) ==
  IF GetStatus(s) = "pending"
  THEN [sessionId |-> s, status |-> "pending", results |-> <<>>]
  ELSE [sessionId |-> s, status |-> "completed",
        results |-> OrderByLimit(repoAnalysis, plan,
                                 RowsOf(repoAnalysis, s), Limit)]

GetStatusCall(s) ==
  /\ \E plan \in Plans : response' = getStatus(s, plan)
  /\ UNCHANGED <<sessions, searches, repoAnalysis, pendingSearches, gate,
                 start, workflows, queue, cons, exec, gen, room>>

\* a table of n rows: scores given, row other (if any) of the second
\* session, rows after cut analyzed one tick later than the rows up to it
Table(n, scores, other, cut) ==
  [i \in 1..n |->
     [sessionId |-> IF i = other THEN 2 ELSE 1,
      searchId |-> IF i = other THEN 2 ELSE 1,
      repoFullName |-> IF i = other THEN 1 ELSE i,
      relevancyScore |-> scores[i],
      analyzedAt |-> IF i <= cut THEN 1 ELSE 2]]

\* the scores of n rows of which at most MaxTop are not zero
TopScores(n) ==
  {scores \in [1..n -> {0, One \div 2}] :
     Cardinality({i \in 1..n : scores[i] # 0}) <= MaxTop}

\* two sessions of one search each have started; the search of the second
\* is completed, that of the first is completed or still outstanding
QueryInit ==
  /\ sessions = {1, 2}
  /\ \E done \in BOOLEAN :
       /\ searches = <<[sessionId |-> 1,
                        status |-> IF done THEN "completed" ELSE "pending"],
                       [sessionId |-> 2, status |-> "completed"]>>
       /\ pendingSearches = Stored(IF done THEN <<>> ELSE <<1>>)
  /\ \E n \in 0..MaxRows :
       \E scores \in TopScores(n), other \in 0..n, cut \in 0..n :
         repoAnalysis = Table(n, scores, other, cut)
  /\ gate = NoOne
  /\ room = NoRoom
  /\ start = [s \in Sessions |->
                [pc |-> "done", searchIds |-> <<s>>, terms |-> 0]]
  /\ workflows = [id \in SearchIds |-> [created |-> TRUE, sends |-> 1]]
  /\ queue = [id \in SearchIds |-> 0]
  /\ cons = [c \in Consumers |-> Idle]
  /\ response = NoResponse
  /\ exec = NoExec
  /\ gen = NoGen

QueryNext == \E s \in sessions : GetStatusCall(s)

QuerySpec == QueryInit /\ [][QueryNext]_vars

\* ---- searchRepositoriesWithRetry, one attempt at a time ----

\* a call starts; attempts[k] is what attempt k meets if it is made
RetryInit ==
  /\ sessions = {}
  /\ searches = <<>>
  /\ repoAnalysis = <<>>
  /\ pendingSearches = Undefined
  /\ gate = NoOne
  /\ room = NoRoom
  /\ start = [s \in Sessions |-> NotStarted]
  /\ workflows = [id \in SearchIds |-> [created |-> FALSE, sends |-> 0]]
  /\ queue = [id \in SearchIds |-> 0]
  /\ cons = [c \in Consumers |-> Idle]
  /\ response = NoResponse
  /\ gen = NoGen
  /\ \E attempts \in AttemptOutcomes :
       exec = [NoExec EXCEPT !.attempts = attempts, !.pc = "loop"]

\* for (let i = 0; i < retries; i++): response = await app.fetch(...)
Fetch ==
  /\ exec.pc = "loop"
  /\ exec.i < retries
  /\ exec' = [exec EXCEPT !.made = @ + 1, !.pc = "fetched"]
  /\ UNCHANGED <<sessions, searches, repoAnalysis, pendingSearches, gate,
                 start, workflows, queue, cons, response, gen, room>>

\* a non-200 response ends the iteration without a wait, and the loop ends
\* without a return value after the last one
HandledNon200Repeating(e) == [e EXCEPT !.pc = "loop"]

HandledNon200(e) ==
  IF e.i + 1 < retries
  THEN [e EXCEPT !.i = @ + 1, !.pc = "loop"]
  ELSE [e EXCEPT !.i = @ + 1, !.pc = "done", !.result = "undefined"]

\* catch (error): rethrow on the last attempt, otherwise wait 1000 * (i + 1)
HandledThrow(e) ==
  IF e.i = retries - 1
  THEN [e EXCEPT !.pc = "done", !.result = "throw"]
  ELSE [e EXCEPT !.slept = Append(@, BackoffMs * (e.i + 1)),
                 !.i = @ + 1, !.pc = "loop"]

\* the rest of the loop body after the fetch
Handle ==
  /\ exec.pc = "fetched"
  /\ exec' = IF exec.attempts[exec.i + 1] = "ok"
             THEN [exec EXCEPT !.pc = "done", !.result = "json"]
             ELSE IF exec.attempts[exec.i + 1] = "non200"
                  THEN HandledNon200(exec)
                  ELSE HandledThrow(exec)
  /\ UNCHANGED <<sessions, searches, repoAnalysis, pendingSearches, gate,
                 start, workflows, queue, cons, response, gen, room>>

RetryNext == Fetch \/ Handle

RetrySpec == RetryInit /\ [][RetryNext]_vars

TypeOK ==
  /\ sessions \subseteq Sessions
  /\ Len(searches) <= MaxSearches
  /\ gate \in Consumers \cup {NoOne}
  /\ \A id \in SearchIds : queue[id] \in 0..MaxSends

\* ---- properties ----

TasksOf(s) == {id \in DOMAIN searches : searches[id].sessionId = s}

Terminal(id) == searches[id].status \in {"completed", "failed"}

\* QueryOutstandingTasks: tasks of s with status pending or running
OutstandingCount(s) ==
  Cardinality({id \in TasksOf(s) : searches[id].status \in {"pending", "running"}})

Returned(s) == start[s].pc = "done"

\* the step is taken by handler invocation c
StepOf(c) == cons'[c] # cons[c]

\* c's call of workflowComplete returns in this step
WorkflowCompleteReturns(c) ==
  cons[c].pc \in {"notify", "wcPut"} /\ cons'[c].pc = "ack"

\* c's search exhausts its retries in this step
SearchExhausted(c) == cons[c].pc = "search" /\ cons'[c].pc = "idle"

\* C1: once start has returned the session id, getStatus answers completed
\* for the session only when every search row of the session is completed or
\* failed.
C1_CompletedOnlyWhenAllTerminal ==
  \A s \in sessions :
    (Returned(s) /\ GetStatus(s) = "completed")
      => \A id \in TasksOf(s) : Terminal(id)

\* C2: for every session whose start has returned, getStatus answers pending
\* exactly when the store counts at least one pending or running search of
\* the session.
C2_PendingIffStoreOutstanding ==
  \A s \in sessions :
    Returned(s) => (GetStatus(s) = "pending" <=> OutstandingCount(s) > 0)

\* nothing is in flight: no start in progress, no undelivered message, no
\* handler running
Quiet ==
  /\ \A s \in Sessions : start[s].pc \in {"new", "done", "failed"}
  /\ \A id \in SearchIds : queue[id] = 0
  /\ \A c \in Consumers : cons[c].pc = "idle"

\* C3: for the only session started, with at least one search, once every
\* message has been delivered and handled successfully (every search row
\* completed, nothing left in flight) getStatus answers completed.
C3_CompletesWhenAllDelivered ==
  \A s \in sessions :
    ( /\ sessions = {s}
      /\ Returned(s)
      /\ TasksOf(s) # {}
      /\ \A id \in TasksOf(s) : searches[id].status = "completed"
      /\ Quiet )
      => GetStatus(s) = "completed"

\* C4: repo_analysis never holds two rows with the same session id and
\* repository name.
C4_OneRecordPerCandidate ==
  \A i, j \in DOMAIN repoAnalysis :
    ( /\ repoAnalysis[i].sessionId = repoAnalysis[j].sessionId
      /\ repoAnalysis[i].repoFullName = repoAnalysis[j].repoFullName )
      => i = j

\* C4 witness: a handler passed the existence check for a repository that a
\* handler of another search of the same session has inserted since.
C4_Witness ==
  \E c \in Consumers :
    /\ cons[c].pc \in {"analyze", "insert"}
    /\ \E i \in DOMAIN repoAnalysis :
         /\ repoAnalysis[i].sessionId = CurrentSession(c)
         /\ repoAnalysis[i].repoFullName = Head(cons[c].items)
         /\ repoAnalysis[i].searchId # CurrentId(c)

\* C5: a handler that received the message of a search already completed
\* adds no repo_analysis row and changes neither the stored pendingSearches
\* nor any search status.
C5_ReplayChangesNothing ==
  [][\A c \in Consumers :
       (cons[c].replay /\ StepOf(c))
         => /\ repoAnalysis' = repoAnalysis
            /\ pendingSearches' = pendingSearches
            /\ searches' = searches]_vars

\* C6: the put of start for one session, and workflowComplete for a search of
\* one session, leave the getStatus answer of every other session whose start
\* has returned unchanged.
C6_SessionsIndependent ==
  [][/\ \A s \in Sessions :
          (start[s].pc = "put" /\ start'[s].pc = "done")
            => \A t \in sessions \ {s} :
                 Returned(t) => GetStatus(t)' = GetStatus(t)
     /\ \A c \in Consumers :
          WorkflowCompleteReturns(c)
            => \A t \in sessions \ {CurrentSession(c)} :
                 Returned(t) => GetStatus(t)' = GetStatus(t)]_vars

\* C7: every workflowComplete(id) stores the list that is in storage when it
\* writes, without id: no update made between its read and its write is
\* lost, and the list becomes empty exactly when id was the only entry left.
C7_NoLostUpdate ==
  [][\A c \in Consumers :
       (cons[c].pc = "wcPut" /\ cons'[c].pc = "ack")
         => /\ pendingSearches' =
                 Stored(FilterOut(pendingSearches.list, CurrentId(c)))
            /\ (pendingSearches'.list = <<>>
                  <=> Range(pendingSearches.list) \subseteq {CurrentId(c)})]_vars

\* C7 witness: two handlers have both returned from workflowComplete for
\* different searches that were outstanding together, and neither is left.
C7_Witness ==
  \E c, d \in Consumers :
    /\ c # d
    /\ cons[c].pc = "ack" /\ cons[d].pc = "ack"
    /\ CurrentId(c) # CurrentId(d)
    /\ {CurrentId(c), CurrentId(d)} \subseteq Range(cons[c].wcRead.list)
    /\ cons[d].wcRead.list = FilterOut(cons[c].wcRead.list, CurrentId(c))
    /\ pendingSearches = Stored(<<>>)

\* C8: workflowComplete(id) with id absent from the stored list, or with
\* nothing stored yet, leaves the storage as it was.
C8_AbsentIdIsNoOp ==
  [][\A c \in Consumers :
       ( /\ WorkflowCompleteReturns(c)
         /\ \/ ~pendingSearches.defined
            \/ CurrentId(c) \notin Range(pendingSearches.list) )
         => pendingSearches' = pendingSearches]_vars

\* C8 witness: a handler has returned from workflowComplete for an id that
\* was absent from a non-empty stored list, and the list is as it was.
C8_Witness ==
  \E c \in Consumers :
    /\ cons[c].pc = "ack"
    /\ cons[c].wcRead.defined
    /\ cons[c].wcRead.list # <<>>
    /\ CurrentId(c) \notin Range(cons[c].wcRead.list)
    /\ pendingSearches = cons[c].wcRead

\* C9: in the only session started, when the search of one of several tasks
\* exhausts its retries after start has returned and every other task of the
\* session has completed and left the stored list, getStatus answers
\* completed.
C9_CompletesDespiteFailedSearch ==
  [][\A c \in Consumers :
       ( /\ SearchExhausted(c)
         /\ sessions = {CurrentSession(c)}
         /\ Returned(CurrentSession(c))
         /\ TasksOf(CurrentSession(c)) # {CurrentId(c)}
         /\ Range(pendingSearches.list) \subseteq {CurrentId(c)}
         /\ \A id \in TasksOf(CurrentSession(c)) \ {CurrentId(c)} :
              searches[id].status = "completed" )
         => GetStatus(CurrentSession(c))' = "completed"]_vars

\* C10: when the search of a message exhausts its retries, the search row is
\* marked failed, the id leaves the stored list, and the message is
\* acknowledged instead of returning to the queue.
C10_ExhaustedSearchIsTerminal ==
  [][\A c \in Consumers :
       SearchExhausted(c)
         => /\ searches'[CurrentId(c)].status = "failed"
            /\ CurrentId(c) \notin Range(pendingSearches'.list)
            /\ queue' = queue]_vars

\* the score of the first float-looking token of a text, zero without one
RegexScore(t) ==
  IF FirstMatch(t) # 0 THEN ParseFloatAt(t, FirstMatch(t)) ELSE 0

\* analyzeRepository has returned to the handler of c
Scored(c) == cons[c].pc = "insert"

\* C11: every score analyzeRepository returns, and every score persisted in
\* repo_analysis, lies in [0, 1].
C11_ScoreInUnitInterval ==
  /\ \A c \in Consumers : Scored(c) => cons[c].score \in 0..One
  /\ \A i \in DOMAIN repoAnalysis : repoAnalysis[i].relevancyScore \in 0..One

\* C12: analyzeRepository never rejects: whatever the two AI calls do, the
\* handler that awaits it goes on to the insert.
C12_ScoreNeverFails ==
  [][\A c \in Consumers :
       (cons[c].pc = "analyze" /\ StepOf(c)) => cons'[c].pc = "insert"]_vars

\* C13: the score returned is the structured score when the structuring call
\* yields a number within [0, 1]; when that call rejects, or its output does
\* not parse, or parses without a numeric relevancyScore, it is the first
\* float-looking token of the reasoning text, or zero without such a token.
C13_ThreeTierFallback ==
  \A c \in Consumers :
    Scored(c) =>
      /\ (cons[c].llama.kind = "number" /\ cons[c].llama.value \in 0..One)
           => cons[c].score = cons[c].llama.value
      /\ cons[c].llama.kind \in {"throw", "unparseable", "mismatch"}
           => cons[c].score = RegexScore(cons[c].raw.text)

\* C14: when the structuring call rejects for a candidate whose reasoning
\* call returned a text, the score is that of the first float-looking token
\* of the text (zero without one), the handler inserts a record with that
\* score and moves on to the next candidate, and after the last candidate
\* it marks the search completed.
C14_StructuringThrowsStillCompletes ==
  [][\A c \in Consumers :
       /\ (Scored(c) /\ cons[c].llama.kind = "throw")
            => /\ cons[c].score = RegexScore(cons[c].raw.text)
               /\ StepOf(c)
                    => /\ repoAnalysis' =
                            Append(repoAnalysis,
                                   [sessionId |-> CurrentSession(c),
                                    searchId |-> CurrentId(c),
                                    repoFullName |-> Head(cons[c].items),
                                    relevancyScore |->
                                      RegexScore(cons[c].raw.text)])
                       /\ cons'[c].pc =
                            IF Len(cons[c].items) > 1 THEN "check"
                            ELSE "update"
       /\ (cons[c].pc = "update" /\ StepOf(c))
            => searches'[CurrentId(c)].status = "completed"]_vars

\* C14 witness: the search is completed with a record for each of two
\* candidates, one scored from a token of the text and one scored zero.
C14_Witness ==
  \E id \in DOMAIN searches :
    /\ searches[id].status = "completed"
    /\ \E i, j \in DOMAIN repoAnalysis :
         /\ repoAnalysis[i].searchId = id /\ repoAnalysis[j].searchId = id
         /\ repoAnalysis[i].relevancyScore = One \div 2
         /\ repoAnalysis[j].relevancyScore = 0
         /\ repoAnalysis[i].repoFullName # repoAnalysis[j].repoFullName

\* C15: when getStatus(s) answers completed, its results are distinct
\* records of s only, at most 10 of them, in non-increasing order of score,
\* and no record of s left out has a higher score than a returned one.
C15_TopResultsOfSession ==
  response.status = "completed" =>
    LET q == response.results
        mine == {i \in DOMAIN repoAnalysis :
                   repoAnalysis[i].sessionId = response.sessionId}
    IN /\ Range(q) \subseteq mine
       /\ \A k, l \in DOMAIN q : k # l => q[k] # q[l]
       /\ Len(q) <= Limit
       /\ \A k, l \in DOMAIN q :
            k < l => repoAnalysis[q[k]].relevancyScore
                       >= repoAnalysis[q[l]].relevancyScore
       /\ \A i \in mine \ Range(q), k \in DOMAIN q :
            repoAnalysis[i].relevancyScore
              <= repoAnalysis[q[k]].relevancyScore

\* C15 witness: a completed answer of 10 records with two different scores,
\* from a table that also holds a record of the session that was left out
\* and a record of another session.
C15_Witness ==
  /\ response.status = "completed"
  /\ Len(response.results) = Limit
  /\ \E k, l \in DOMAIN response.results :
       repoAnalysis[response.results[k]].relevancyScore
         # repoAnalysis[response.results[l]].relevancyScore
  /\ \E i, j \in DOMAIN repoAnalysis :
       /\ repoAnalysis[i].sessionId = response.sessionId
       /\ i \notin Range(response.results)
       /\ repoAnalysis[j].sessionId # response.sessionId

\* C16: in a completed answer, records of equal score appear in ascending
\* order of analyzedAt.
C16_TiesByAnalyzedAt ==
  response.status = "completed" =>
    \A k, l \in DOMAIN response.results :
      ( /\ k < l
        /\ repoAnalysis[response.results[k]].relevancyScore
             = repoAnalysis[response.results[l]].relevancyScore )
        => repoAnalysis[response.results[k]].analyzedAt
             <= repoAnalysis[response.results[l]].analyzedAt

\* C17: the status of a search that is completed or failed never changes.
C17_TerminalIsFinal ==
  [][\A id \in DOMAIN searches :
       Terminal(id) => searches'[id].status = searches[id].status]_vars

\* C17 witness: a handler that received the message of a completed search
\* has run its status update.
C17_Witness ==
  \E c \in Consumers :
    /\ cons[c].replay
    /\ cons[c].pc = "notify"
    /\ searches[CurrentId(c)].status = "completed"

\* copies of the message of search id not acknowledged yet: on the queue or
\* held by a running handler
InFlight(id) ==
  queue[id]
    + Cardinality({p \in Consumers \X (1..MaxBatch) :
                     /\ p[2] <= Len(cons[p[1]].batch)
                     /\ cons[p[1]].batch[p[2]] = id})

\* C18: a copy of a message leaves the system only by the ack of a handler
\* that has gone through every candidate, has marked the search completed
\* and has returned from workflowComplete; a handler that stops anywhere
\* before its ack puts every message it holds back on the queue.
C18_AckOnlyAfterAllDone ==
  [][/\ \A id \in SearchIds :
          InFlight(id)' < InFlight(id)
            => \E c \in Consumers :
                 /\ StepOf(c)
                 /\ cons[c].pc = "ack"
                 /\ CurrentId(c) = id
                 /\ cons[c].items = <<>>
                 /\ searches[id].status = "completed"
                 /\ gate # c
     /\ \A c \in Consumers :
          (StepOf(c) /\ cons[c].pc \notin {"idle", "ack"}
             /\ cons'[c].pc = "idle")
            => queue' = Requeued(cons[c].batch)]_vars

\* C18 witness: one copy of a twice-sent message has been acknowledged after
\* the search was completed, and the other copy is back on the queue or
\* still to be handled.
C18_Witness ==
  \E id \in DOMAIN searches :
    /\ workflows[id].sends = 2
    /\ InFlight(id) = 1
    /\ searches[id].status = "completed"
    /\ \E i \in DOMAIN repoAnalysis : repoAnalysis[i].searchId = id

\* C19: a handler that received the message of a completed search goes to
\* its ack without running the search or the analysis.
C19_CompletedShortCircuits ==
  [][\A c \in Consumers :
       (cons[c].replay /\ StepOf(c))
         => cons[c].pc \notin {"search", "analyze"}]_vars

\* C20: when start has returned for a session, the session has one pending
\* or later row per id start collected, the ids are distinct, and one
\* message per task has been sent to the queue.
C20_OneMessagePerTask ==
  /\ \A s \in Sessions :
       Returned(s)
         => /\ Range(start[s].searchIds) = TasksOf(s)
            /\ Cardinality(TasksOf(s)) = Len(start[s].searchIds)
            /\ \A id \in TasksOf(s) : workflows[id].created
  /\ \A id \in SearchIds : workflows[id].sends <= 1

\* start rejected for s at a workflow create, after the row of the task
RejectedAtCreate(s) == start[s].pc = "failed" /\ start[s].searchIds # <<>>

\* start rejected for s in generateSearchTerms, before any task row
RejectedAtGenerate(s) == start[s].pc = "failed" /\ start[s].searchIds = <<>>

\* C21: when the dispatch of a task fails after its row was inserted, the
\* task is pending with no message in flight, and it and every task of the
\* session dispatched before it that is not completed are in the stored
\* list.
C21_FailedDispatchStaysTracked ==
  \A s \in Sessions :
    RejectedAtCreate(s) =>
      LET ids == start[s].searchIds
      IN /\ searches[ids[Len(ids)]].status = "pending"
         /\ InFlight(ids[Len(ids)]) = 0
         /\ pendingSearches.defined
         /\ \A id \in Range(ids) :
              ~Terminal(id) => id \in Range(pendingSearches.list)

\* C22: when start has returned for a session of zero terms, the session row
\* exists, the session has no task and no record, and getStatus answers
\* completed.
C22_ZeroTermsIsCompleted ==
  \A s \in Sessions :
    (Returned(s) /\ start[s].searchIds = <<>>)
      => /\ s \in sessions
         /\ TasksOf(s) = {}
         /\ \A i \in DOMAIN repoAnalysis : repoAnalysis[i].sessionId # s
         /\ GetStatus(s) = "completed"

\* C23: when generateSearchTerms rejects, the session row exists and an
\* empty list is stored for the session.
C23_GenerationThrowsIsEmpty ==
  \A s \in Sessions :
    RejectedAtGenerate(s)
      => /\ s \in sessions
         /\ pendingSearches = Stored(<<>>)

\* C24: an insert that meets the UNIQUE constraint does not stop the
\* handler: it goes on with the next candidate, or to the status update
\* after the last one.
C24_UniqueViolationIsSkipped ==
  [][\A c \in Consumers :
       (cons[c].pc = "insert" /\ StepOf(c))
         => cons'[c].pc = IF Len(cons[c].items) > 1 THEN "check"
                          ELSE "update"]_vars

\* C25: searchRepositoriesWithRetry makes at most 3 attempts, and once the
\* third attempt has been handled the call has ended, whatever each attempt
\* met.
C25_AtMostThreeAttempts ==
  /\ exec.made <= retries
  /\ (exec.made = retries /\ exec.pc # "fetched") => exec.pc = "done"
  /\ exec.pc = "loop" => exec.made = exec.i

\* C25 witness: a call has ended after three attempts of which the first met
\* a non-200 response and the second threw.
C25_Witness ==
  /\ exec.pc = "done"
  /\ exec.made = retries
  /\ exec.attempts[1] = "non200"
  /\ exec.attempts[2] = "throw"

\* C26: a call that has ended has returned the parsed body or has thrown;
\* when no attempt met a 200 response it has thrown.
C26_ReturnsResultOrThrows ==
  exec.pc = "done" =>
    /\ exec.result \in {"json", "throw"}
    /\ (\A k \in 1..retries : exec.attempts[k] # "ok")
         => exec.result = "throw"

\* C27: before attempt k + 1 the call has waited 1000 * j ms after each
\* attempt j up to k, and a call that ended after its attempt k has waited
\* only after the attempts before it.
C27_BackoffBetweenAttempts ==
  /\ exec.pc = "loop"
       => exec.slept = [j \in 1..exec.made |-> BackoffMs * j]
  /\ exec.pc = "done"
       => exec.slept = [j \in 1..(exec.made - 1) |-> BackoffMs * j]

\* C28: no candidate of a session is scored for two different searches of
\* the session: no handler holds a score for a candidate that has a record
\* from another search, and no two handlers of different searches hold a
\* score for the same candidate.
C28_ScoredOncePerCandidate ==
  \A c \in Consumers :
    Scored(c) =>
      /\ \A i \in DOMAIN repoAnalysis :
           ~ /\ repoAnalysis[i].sessionId = CurrentSession(c)
             /\ repoAnalysis[i].repoFullName = Head(cons[c].items)
             /\ repoAnalysis[i].searchId # CurrentId(c)
      /\ \A d \in Consumers \ {c} :
           ~ /\ Scored(d)
             /\ CurrentSession(d) = CurrentSession(c)
             /\ CurrentId(d) # CurrentId(c)
             /\ Head(cons[d].items) = Head(cons[c].items)

\* the records of candidate repo in session s
RecordsOf(rows, s, repo) ==
  {i \in DOMAIN rows : rows[i].sessionId = s /\ rows[i].repoFullName = repo}

\* the handler of c has dealt with its current candidate
CandidateDone(c) ==
  /\ StepOf(c)
  /\ cons[c].pc \in {"check", "insert"}
  /\ cons'[c].pc \in {"check", "update"}

\* C29: with the tasks handled one at a time, every candidate a handler has
\* dealt with has exactly one record in its session, and a record is only
\* ever added, by a handler, for the candidate at hand: the records of a
\* session whose tasks have completed are the distinct candidates of the
\* tasks' results, one each.
C29_RecordsAreDistinctCandidates ==
  [][/\ \A c \in Consumers :
          CandidateDone(c)
            => Cardinality(RecordsOf(repoAnalysis', CurrentSession(c),
                                     Head(cons[c].items))) = 1
     /\ repoAnalysis' # repoAnalysis
          => \E c \in Consumers :
               /\ cons[c].pc = "insert"
               /\ Len(repoAnalysis') = Len(repoAnalysis) + 1
               /\ SubSeq(repoAnalysis', 1, Len(repoAnalysis)) = repoAnalysis
               /\ repoAnalysis'[Len(repoAnalysis')].sessionId
                    = CurrentSession(c)
               /\ repoAnalysis'[Len(repoAnalysis')].repoFullName
                    = Head(cons[c].items)]_vars

\* C29 witness: the first task is completed with two records; the handler
\* of the second task has inserted a third record for its first candidate
\* and finds that its last candidate has a record from the first task.
C29_Witness ==
  \E c \in Consumers :
    /\ cons[c].pc = "check"
    /\ Len(cons[c].items) = 1
    /\ Len(repoAnalysis) = 3
    /\ ~cons[c].replay
    /\ \E i, j \in DOMAIN repoAnalysis :
         /\ repoAnalysis[i].searchId = CurrentId(c)
         /\ repoAnalysis[j].searchId # CurrentId(c)
         /\ repoAnalysis[j].sessionId = CurrentSession(c)
         /\ repoAnalysis[j].repoFullName = Head(cons[c].items)
         /\ searches[repoAnalysis[j].searchId].status = "completed"

\* C30: when start returns, the session row, a row for each id start
\* collected and the list of those ids are stored; when workflowComplete(id)
\* returns, the stored list does not contain id.
C30_PersistedBeforeReturn ==
  [][/\ \A s \in Sessions :
          (start[s].pc = "put" /\ start'[s].pc = "done")
            => /\ s \in sessions'
               /\ Range(start[s].searchIds) = TasksOf(s)'
               /\ pendingSearches' = Stored(start[s].searchIds)
     /\ \A c \in Consumers :
          WorkflowCompleteReturns(c)
            => CurrentId(c) \notin Range(pendingSearches'.list)]_vars

\* C30 witness: start has returned for a session of two tasks, and a
\* handler has returned from the workflowComplete that took its task out of
\* the stored list of both.
C30_Witness ==
  \E c \in Consumers :
    /\ cons[c].pc = "ack"
    /\ Returned(CurrentSession(c))
    /\ Len(start[CurrentSession(c)].searchIds) = 2
    /\ cons[c].wcRead = Stored(start[CurrentSession(c)].searchIds)
    /\ pendingSearches = Stored(FilterOut(cons[c].wcRead.list, CurrentId(c)))

\* no handler holds a message of session s
NoHandlerOf(s) ==
  \A c \in Consumers : \A k \in DOMAIN cons[c].batch :
    searches[cons[c].batch[k]].sessionId # s

\* C31: for a session whose start has returned and of which no handler holds
\* a message, the stored list holds exactly the searches of the session
\* whose status is pending or running.
C31_StoredListRebuildable ==
  \A s \in sessions :
    (Returned(s) /\ NoHandlerOf(s))
      => Range(pendingSearches.list)
           = {id \in TasksOf(s) :
                searches[id].status \in {"pending", "running"}}

\* C32: a search row becomes completed or failed only from running.
C32_RunningBeforeTerminal ==
  [][\A id \in DOMAIN searches :
       (Terminal(id)' /\ ~Terminal(id))
         => searches[id].status = "running"]_vars

\* C34: for the only session started, once start has returned, every search
\* of the session is completed and no handler is running, the stored list
\* is empty and getStatus answers completed, also when a workflowComplete
\* ran before the put of start.
C34_NoCompletionLostToStart ==
  \A s \in sessions :
    ( /\ sessions = {s}
      /\ Returned(s)
      /\ \A id \in TasksOf(s) : searches[id].status = "completed"
      /\ \A c \in Consumers : cons[c].pc = "idle" )
      => /\ pendingSearches.list = <<>>
         /\ GetStatus(s) = "completed"

\* C35: once getStatus answers completed for a session whose start has
\* returned, it answers completed ever after.
C35_CompletedIsStable ==
  [][\A s \in sessions :
       (Returned(s) /\ GetStatus(s) = "completed")
         => GetStatus(s)' = "completed"]_vars

\* C36: a getStatus answer of pending carries an empty result list.
C36_PendingHidesRecords ==
  response.status = "pending" => response.results = <<>>

\* C36 witness: getStatus has answered pending for a session that has
\* records in repo_analysis.
C36_Witness ==
  /\ response.status = "pending"
  /\ \E i \in DOMAIN repoAnalysis :
       repoAnalysis[i].sessionId = response.sessionId

C33_AtMostFiveUsableTerms ==
  /\ Len(gen.dispatched) + Len(gen.terms) <= K
  /\ \A k \in DOMAIN gen.dispatched :
       gen.dispatched[k] # "nonString" /\ Trim(gen.dispatched[k]) # ""

\* C33 witness: start has dispatched 5 terms derived from a raw text of six
\* query lines, after the second call rejected.
C33_Witness ==
  /\ gen.pc = "done"
  /\ Len(gen.dispatched) = K
  /\ gen.llama.kind = "throw"
  /\ Len(UsableLines(gen.gpt.lines)) > K

\* C38: in a room served by src/do/RoomDO.ts, a valid message of type
\* broadcast or of any type other than ping and list_clients is sent, once, to
\* every other socket of the room that is open and is not sent to its sender;
\* a ping or a list_clients is answered with one message to its sender and
\* nothing is sent to any other socket.
C38_BroadcastToOthersOnly ==
  [][\A ws \in Sockets, raw \in Raws :
       (webSocketMessage(ws, raw) /\ Valid(raw)) =>
         IF raw.type \in {"ping", "list_clients"}
         THEN /\ Len(room'.out[ws]) = 1
              /\ room'.out[ws][1].type =
                   (IF raw.type = "ping" THEN "pong" ELSE "clients_list")
              /\ \A sock \in Sockets \ {ws} : room'.out[sock] = <<>>
         ELSE /\ room'.out[ws] = <<>>
              /\ \A sock \in Sockets \ {ws} :
                   room.state[sock] = "open" =>
                     /\ Len(room'.out[sock]) = 1
                     /\ room'.out[sock][1].type = raw.type]_vars

\* a message of an unknown type has been handled with its sender open, another
\* socket open and a third socket of the room closing: the open one has the
\* message, the sender and the closing one have nothing
C38_Witness ==
  /\ room.path = "default"
  /\ \E a, b, c \in Sockets :
       /\ a # b /\ b # c /\ a # c
       /\ room.state[a] = "open" /\ room.out[a] = <<>>
       /\ room.state[b] = "open"
       /\ room.out[b] = <<[type |-> "message", sender |-> a]>>
       /\ room.state[c] = "closing" /\ room.out[c] = <<>>

\* C39: in a room served by the rate-limited RoomDO, for every message of one
\* socket that is not oversize: at most MAX_MESSAGES_PER_SECOND messages of
\* the socket are processed in one rate-limit window; a message that comes in
\* the window after that many were processed gets the "Rate limit exceeded"
\* error, sent to its sender only; and a message that comes when the window
\* has expired is processed.
C39_RateLimitWindow ==
  [][\A ws \in LimitSockets, raw \in LimitRaws :
       webSocketMessageLimited(ws, raw, FALSE) =>
         LET w == room.window[ws]
             inWindow == room.now - w.start < RATE_LIMIT_WINDOW_MS
         IN /\ room'.window[ws].processed <= MAX_MESSAGES_PER_SECOND
            /\ (inWindow /\ w.processed = MAX_MESSAGES_PER_SECOND) =>
                 /\ room'.path = "limited"
                 /\ room'.out = send(NoSends, ws,
                                     Reply("error: Rate limit exceeded"))
            /\ ~inWindow => Processed(room'.path)]_vars
====
